---- MODULE Spec2Model ----
(***************************************************************************)
(* Model of the signal computations of TradingBotTelegram:                 *)
(*   binance_lib.py   get_binance_price_pb, get_moving_averages,           *)
(*                    generate_crossover_signal, generate_breakout_signal  *)
(*   bin_lib_adv.py   get_current_volume, get_average_historical_volume,   *)
(*                    generate_volume_signal, the __main__ volume analysis *)
(*                                                                         *)
(* Numbers.  Python floats are modelled as exact rationals num/den with    *)
(* den > 0; IEEE-754 rounding is not modelled.  A field of a provider row  *)
(* is modelled by what float(row[i]) does with it: it yields a number      *)
(* (k = "num"), or raises ValueError (a non-numeric string), IndexError    *)
(* (the row is too short) or TypeError (a null / non-string value).        *)
(***************************************************************************)
EXTENDS Integers, Sequences, FiniteSets, TLC

\* ------------------------------------------------------------------ bounds
MaxPeriod == 3   \* largest period / lookback an invocation is given
MaxVal    == 2   \* largest numeric value of a candle field
MaxRollovers == 1  \* days the provider closes during one volume analysis
MaxClicks    == 2  \* button clicks the bot receives
\* the periods the bot calls the functions with, scaled to the model's windows
BotShortPeriod == 1
BotLongPeriod  == 2
BotLookback    == 1

\* ------------------------------------------------------ optional rationals
None      == [k |-> "None",  num |-> 0, den |-> 1]
Raised    == [k |-> "raise", num |-> 0, den |-> 1]
Rat(n, d) == [k |-> "num",   num |-> n, den |-> d]

IsNum(x)  == x.k = "num"

Norm(n, d) == IF d < 0 THEN Rat(0 - n, 0 - d) ELSE Rat(n, d)
RSub(a, b) == Rat(a.num * b.den - b.num * a.den, a.den * b.den)
RMul(a, b) == Rat(a.num * b.num, a.den * b.den)
RDiv(a, b) == Norm(a.num * b.den, a.den * b.num)
RAbs(a)    == IF a.num < 0 THEN Rat(0 - a.num, a.den) ELSE a
RLt(a, b)  == a.num * b.den < b.num * a.den
RGt(a, b)  == RLt(b, a)
RLeq(a, b) == ~RLt(b, a)
REq(a, b)  == a.num * b.den = b.num * a.den

\* equality of two optional numbers: both missing, or both the same number
OptEq(a, b) == IF IsNum(a) /\ IsNum(b) THEN REq(a, b) ELSE a.k = b.k

\* ------------------------------------------------------- provider payloads
NumField(n) == [k |-> "num", v |-> n]
ErrField(e) == [k |-> e, v |-> 0]

ParseErrors == {"ValueError", "IndexError", "TypeError"}
Fields      == {NumField(n) : n \in 0..MaxVal} \cup {ErrField(e) : e \in ParseErrors}

Row(h, l, c, v) == [high |-> h, low |-> l, close |-> c, volume |-> v]

\* rows whose close varies (moving averages)
CloseRows  == {Row(NumField(MaxVal), NumField(0), c, NumField(1)) : c \in Fields}
\* rows whose volume varies (volume analysis)
VolumeRows == {Row(NumField(MaxVal), NumField(0), NumField(1), v) : v \in Fields}
\* rows whose high and low vary (breakout); a well-formed candle has low <= high
RangeRows  ==
    {Row(NumField(hl[1]), NumField(hl[2]), NumField(hl[2]), NumField(1)) :
        hl \in {p \in (1..MaxVal) \X (1..MaxVal) : p[2] <= p[1]}}
    \cup {Row(ErrField(e), NumField(1), NumField(1), NumField(1)) : e \in ParseErrors}
    \cup {Row(NumField(1), ErrField(e), NumField(1), NumField(1)) : e \in ParseErrors}

SeqsUpTo(n, S) == UNION {[1..m -> S] : m \in 0..n}

\* What Client("", "") followed by get_klines(limit=limit) can produce: the
\* constructor raises, the request raises, or at most `limit` rows come back,
\* oldest first, the last one being the period that is still open.
KlinesResponses(limit, rows) ==
    {[status |-> s, rows |-> <<>>] : s \in {"client_error", "api_error"}}
    \cup {[status |-> "ok", rows |-> r] :
            r \in SeqsUpTo(IF limit > 0 THEN limit ELSE 0, rows)}

NoKlines == [status |-> "none", rows |-> <<>>]

\* What Client("", "") followed by get_symbol_ticker can produce; a price of
\* kind "absent" is a ticker without a 'price' key (or an empty ticker).
TickerFields    == {NumField(n) : n \in 0..(MaxVal + 1)}
                   \cup {ErrField(e) : e \in {"ValueError", "TypeError", "absent"}}
TickerResponses ==
    {[status |-> s, price |-> ErrField("absent")] : s \in {"client_error", "api_error"}}
    \cup {[status |-> "ok", price |-> p] : p \in TickerFields}

NoTicker == [status |-> "none", price |-> ErrField("absent")]

\* The provider requests one response stands for, in the order they are made.
KlinesRequests(resp) ==
    IF resp.status = "client_error" THEN <<"client">> ELSE <<"client", "klines">>
TickerRequests(resp) ==
    IF resp.status = "client_error" THEN <<"client">> ELSE <<"client", "ticker">>

\* --------------------------------------------------------------- helpers
RECURSIVE SumSeq(_)
SumSeq(s) == IF s = <<>> THEN 0 ELSE Head(s) + SumSeq(Tail(s))

\* sum(xs) / len(xs); ZeroDivisionError on an empty list
Mean(xs) == IF Len(xs) = 0 THEN Raised ELSE Rat(SumSeq(xs), Len(xs))

\* the slice taken from the wrong end, xs[:n]
LastN_fromStart(xs, n) == IF n >= Len(xs) THEN xs ELSE SubSeq(xs, 1, n)

\* xs[-n:] for n > 0
LastN(xs, n) == IF n >= Len(xs) THEN xs ELSE SubSeq(xs, Len(xs) - n + 1, Len(xs))
\* xs[:-1]
AllButLast(xs) == IF Len(xs) = 0 THEN xs ELSE SubSeq(xs, 1, Len(xs) - 1)

\* [float(kline[i]) for kline in rows]: the list, or the exception raised
AllParse(rows, field) == \A i \in 1..Len(rows) : rows[i][field].k = "num"
Values(rows, field)   == [i \in 1..Len(rows) |-> rows[i][field].v]

\* `except Exception: return None`
ExceptReturnNone(x) == IF x.k = "raise" THEN None ELSE x

\* ------------------------------------------------- binance_lib.py functions
\* get_binance_price_pb, the statements inside its try block
PriceBody(resp) ==
    IF resp.status # "ok" THEN Raised
    ELSE IF resp.price.k = "absent" THEN None
    ELSE IF resp.price.k = "num" THEN Rat(resp.price.v, 1)
    ELSE Raised

get_binance_price_pb(resp) == ExceptReturnNone(PriceBody(resp))

NonePair   == [short |-> None, long |-> None]
RaisedPair == [short |-> Raised, long |-> Raised]

\* the validation without its short_period > long_period disjunct
InvalidPeriods_noOrder(short_period, long_period) ==
    short_period <= 0 \/ long_period <= 0

\* get_moving_averages: the validation of the periods
InvalidPeriods(short_period, long_period) ==
    short_period <= 0 \/ long_period <= 0 \/ short_period > long_period

\* the count check reduced to `not klines`
TooFewCloses_emptyOnly(rows, long_period) == Len(rows) = 0

\* get_moving_averages: the check on the number of candles received
TooFewCloses(rows, long_period) == Len(rows) = 0 \/ Len(rows) < long_period

\* get_moving_averages: the closes the two averages are taken over
ClosingPrices(rows) == Values(rows, "close")

\* get_moving_averages, the statements inside its try block
MovingAveragesBody(short_period, long_period, resp) ==
    IF resp.status # "ok" THEN RaisedPair
    ELSE IF TooFewCloses(resp.rows, long_period) THEN NonePair
    ELSE IF ~AllParse(resp.rows, "close") THEN RaisedPair
    ELSE LET closing_prices == ClosingPrices(resp.rows)
             long_sma       == Mean(closing_prices)
             short_sma      == Mean(LastN(closing_prices, short_period))
         IN  IF long_sma.k = "raise" \/ short_sma.k = "raise" THEN RaisedPair
             ELSE [short |-> short_sma, long |-> long_sma]

\* get_moving_averages without its except clause
ExceptReturnNonePair_absent(r) == r

\* `except Exception: return None, None`
ExceptReturnNonePair(r) == IF r.short.k = "raise" THEN NonePair ELSE r

get_moving_averages(short_period, long_period, resp) ==
    IF InvalidPeriods(short_period, long_period) THEN NonePair
    ELSE ExceptReturnNonePair(MovingAveragesBody(short_period, long_period, resp))

\* the proximity test with >= in place of >
generate_crossover_signal_inclusive(short_ma, long_ma, proximity_threshold_percent) ==
    IF short_ma.k = "None" \/ long_ma.k = "None" THEN "Dati MA non disponibili"
    ELSE IF long_ma.num = 0 THEN "Dati MA non validi (MA lunga = 0)"
    ELSE LET difference == RSub(short_ma, long_ma)
             relative_difference_percent ==
                 RMul(RDiv(RAbs(difference), long_ma), Rat(100, 1))
         IN  IF RLeq(proximity_threshold_percent, relative_difference_percent)
             THEN IF RGt(difference, Rat(0, 1)) THEN "Rialzista" ELSE "Ribassista"
             ELSE "Hold"

generate_crossover_signal(short_ma, long_ma, proximity_threshold_percent) ==
    IF short_ma.k = "None" \/ long_ma.k = "None" THEN "Dati MA non disponibili"
    ELSE IF long_ma.num = 0 THEN "Dati MA non validi (MA lunga = 0)"
    ELSE LET difference == RSub(short_ma, long_ma)
             relative_difference_percent ==
                 RMul(RDiv(RAbs(difference), long_ma), Rat(100, 1))
         IN  IF RGt(relative_difference_percent, proximity_threshold_percent)
             THEN IF RGt(difference, Rat(0, 1)) THEN "Rialzista" ELSE "Ribassista"
             ELSE "Hold"

\* generate_breakout_signal: float('inf'), above every price of the model
Inf == MaxVal + 2

InvalidLookback(lookback_period) == lookback_period <= 0

TooFewRows(rows, lookback_period) == Len(rows) = 0 \/ Len(rows) < lookback_period

\* the exception float(kline[2]), float(kline[3]) raise for one row, "" if none
RowError(row) ==
    IF row.high.k # "num" THEN row.high.k
    ELSE IF row.low.k # "num" THEN row.low.k
    ELSE ""

\* `except (ValueError, IndexError)`: the exceptions the scan skips a row for
SkippedErrors == {"ValueError", "IndexError"}

ScanInit == [highest_high |-> 0, lowest_low |-> Inf, skipped |-> 0, exc |-> FALSE]

\* one iteration of `for kline in klines`
ScanRow(acc, row) ==
    IF acc.exc THEN acc
    ELSE IF RowError(row) = "" THEN
        [acc EXCEPT !.highest_high = IF row.high.v > @ THEN row.high.v ELSE @,
                    !.lowest_low   = IF row.low.v < @ THEN row.low.v ELSE @]
    ELSE IF RowError(row) \in SkippedErrors THEN [acc EXCEPT !.skipped = @ + 1]
    ELSE [acc EXCEPT !.exc = TRUE]

RECURSIVE ScanFrom(_, _)
ScanFrom(acc, rows) ==
    IF rows = <<>> THEN acc ELSE ScanFrom(ScanRow(acc, Head(rows)), Tail(rows))

\* a scan over the closed candles alone
Scan_closedOnly(rows) == ScanFrom(ScanInit, AllButLast(rows))

Scan(rows) == ScanFrom(ScanInit, rows)

\* generate_breakout_signal: the comparison of the price with the extremes
ClassifyBreakout(current_price, hh, ll) ==
    IF RGt(current_price, Rat(hh, 1)) THEN "Breakout Rialzista"
    ELSE IF RLt(current_price, Rat(ll, 1)) THEN "Breakout Ribassista"
    ELSE "Consolidamento"

ErrLookback     == "Errore: Il lookback period deve essere positivo."
ErrInsufficient == "Dati storici insufficienti per breakout"
ErrPrice        == "Errore nel recupero prezzo attuale per breakout"
ErrInternal     == "Errore interno nel calcolo breakout."
\* an exception that leaves a function instead of a return value
Propagated      == "<exception>"

\* `except Exception: return "Errore interno nel calcolo breakout."`
ExceptReturnErrInternal(sig) == IF sig = Propagated THEN ErrInternal ELSE sig

\* a failed candle fetch that is swallowed, the function going on to the price
BreakoutAfterKlines_continue(lookback_period, resp) ==
    IF resp.status # "ok" THEN ""
    ELSE IF TooFewRows(resp.rows, lookback_period) THEN ErrInsufficient
    ELSE IF Scan(resp.rows).exc THEN ErrInternal
    ELSE ""

\* generate_breakout_signal up to the end of the scan: "" when it goes on to
\* fetch the price, otherwise the string it returns
BreakoutAfterKlines(lookback_period, resp) ==
    ExceptReturnErrInternal(
        IF resp.status # "ok" THEN Propagated
        ELSE IF TooFewRows(resp.rows, lookback_period) THEN ErrInsufficient
        ELSE IF Scan(resp.rows).exc THEN Propagated
        ELSE "")

\* generate_breakout_signal from the price fetch on
BreakoutAfterPrice(current_price, hh, ll) ==
    IF current_price.k = "None" THEN ErrPrice
    ELSE ClassifyBreakout(current_price, hh, ll)

\* ------------------------------------------------- bin_lib_adv.py functions
\* get_current_volume, the statements inside its try block
CurrentVolumeBody(resp) ==
    IF resp.status # "ok" THEN Raised
    ELSE IF Len(resp.rows) = 0 THEN None
    ELSE IF resp.rows[1].volume.k = "num" THEN Rat(resp.rows[1].volume.v, 1)
    ELSE Raised

get_current_volume(resp) == ExceptReturnNone(CurrentVolumeBody(resp))

TooFewVolumes(rows, lookback_period) ==
    Len(rows) = 0 \/ Len(rows) < lookback_period + 1

\* get_average_historical_volume: the candles the average is taken over
ClosedRows(rows) == AllButLast(rows)

\* print("Candele analizzate: " + len(closing_volumes)): str + int raises
\* TypeError whatever the list is
PrintCandeleRaises == TRUE

\* get_average_historical_volume, the statements inside its try block
AverageVolumeBody(lookback_period, resp) ==
    IF resp.status # "ok" THEN Raised
    ELSE IF TooFewVolumes(resp.rows, lookback_period) THEN None
    ELSE IF ~AllParse(ClosedRows(resp.rows), "volume") THEN Raised
    ELSE LET closing_volumes == Values(ClosedRows(resp.rows), "volume")
             average_volume  == Mean(closing_volumes)
         IN  IF PrintCandeleRaises THEN Raised ELSE average_volume

get_average_historical_volume(lookback_period, resp) ==
    IF InvalidLookback(lookback_period) THEN None
    ELSE ExceptReturnNone(AverageVolumeBody(lookback_period, resp))

\* the days of the candles of a response received while `today` is open: the
\* last row is the open day, the rows before it the days before
PeriodOf(rows, i, today) == today - (Len(rows) - i)

\* the period klines[0] of get_current_volume belongs to
CurrentPeriod(resp, today) ==
    IF get_current_volume(resp).k = "num" THEN {PeriodOf(resp.rows, 1, today)}
    ELSE {}

\* the periods closing_volumes is taken from, once sum()/len() has been computed
AveragedPeriods(lookback_period, resp, today) ==
    IF /\ resp.status = "ok"
       /\ ~TooFewVolumes(resp.rows, lookback_period)
       /\ AllParse(ClosedRows(resp.rows), "volume")
        THEN {PeriodOf(resp.rows, i, today) : i \in 1..(Len(resp.rows) - 1)}
    ELSE {}

\* the low-volume test with <= in place of <
generate_volume_signal_inclusive(current_volume, avg_volume, high_threshold_factor, low_threshold_factor) ==
    IF current_volume.k = "None" \/ avg_volume.k = "None"
        THEN "Dati Volume non disponibili"
    ELSE IF RLeq(avg_volume, Rat(0, 1)) THEN "STABILE"
    ELSE IF RGt(current_volume, RMul(avg_volume, high_threshold_factor))
        THEN "RIALZISTA"
    ELSE IF RLeq(current_volume, RMul(avg_volume, low_threshold_factor))
        THEN "RIBASSISTA"
    ELSE "STABILE"

generate_volume_signal(current_volume, avg_volume, high_threshold_factor, low_threshold_factor) ==
    IF current_volume.k = "None" \/ avg_volume.k = "None"
        THEN "Dati Volume non disponibili"
    ELSE IF RLeq(avg_volume, Rat(0, 1)) THEN "STABILE"
    ELSE IF RGt(current_volume, RMul(avg_volume, high_threshold_factor))
        THEN "RIALZISTA"
    ELSE IF RLt(current_volume, RMul(avg_volume, low_threshold_factor))
        THEN "RIBASSISTA"
    ELSE "STABILE"

\* default values of the keyword parameters
DefaultProximity  == Rat(1, 2)
DefaultHighFactor == Rat(3, 2)
DefaultLowFactor  == Rat(7, 10)

\* --------------------------------------------- telegram_interface.py rendering
\* the characters of the strings the classifiers return and of the prefixes
\* the handler tests them against
Chars(s) ==
    CASE s = "Dati MA non" ->
           <<"D", "a", "t", "i", " ", "M", "A", " ", "n", "o", "n">>
      [] s = "Errore" ->
           <<"E", "r", "r", "o", "r", "e">>
      [] s = "Dati MA non disponibili" ->
           <<"D", "a", "t", "i", " ", "M", "A", " ", "n", "o", "n", " ",
             "d", "i", "s", "p", "o", "n", "i", "b", "i", "l", "i">>
      [] s = "Dati MA non validi (MA lunga = 0)" ->
           <<"D", "a", "t", "i", " ", "M", "A", " ", "n", "o", "n", " ",
             "v", "a", "l", "i", "d", "i", " ", "(", "M", "A", " ", "l",
             "u", "n", "g", "a", " ", "=", " ", "0", ")">>
      [] s = "Hold" ->
           <<"H", "o", "l", "d">>
      [] s = "Rialzista" ->
           <<"R", "i", "a", "l", "z", "i", "s", "t", "a">>
      [] s = "Ribassista" ->
           <<"R", "i", "b", "a", "s", "s", "i", "s", "t", "a">>
      [] s = "Errore: Il lookback period deve essere positivo." ->
           <<"E", "r", "r", "o", "r", "e", ":", " ", "I", "l", " ", "l",
             "o", "o", "k", "b", "a", "c", "k", " ", "p", "e", "r", "i",
             "o", "d", " ", "d", "e", "v", "e", " ", "e", "s", "s", "e",
             "r", "e", " ", "p", "o", "s", "i", "t", "i", "v", "o", ".">>
      [] s = "Dati storici insufficienti per breakout" ->
           <<"D", "a", "t", "i", " ", "s", "t", "o", "r", "i", "c", "i",
             " ", "i", "n", "s", "u", "f", "f", "i", "c", "i", "e", "n",
             "t", "i", " ", "p", "e", "r", " ", "b", "r", "e", "a", "k",
             "o", "u", "t">>
      [] s = "Errore nel recupero prezzo attuale per breakout" ->
           <<"E", "r", "r", "o", "r", "e", " ", "n", "e", "l", " ", "r",
             "e", "c", "u", "p", "e", "r", "o", " ", "p", "r", "e", "z",
             "z", "o", " ", "a", "t", "t", "u", "a", "l", "e", " ", "p",
             "e", "r", " ", "b", "r", "e", "a", "k", "o", "u", "t">>
      [] s = "Errore interno nel calcolo breakout." ->
           <<"E", "r", "r", "o", "r", "e", " ", "i", "n", "t", "e", "r",
             "n", "o", " ", "n", "e", "l", " ", "c", "a", "l", "c", "o",
             "l", "o", " ", "b", "r", "e", "a", "k", "o", "u", "t", ".">>
      [] s = "Breakout Rialzista" ->
           <<"B", "r", "e", "a", "k", "o", "u", "t", " ", "R", "i", "a",
             "l", "z", "i", "s", "t", "a">>
      [] s = "Breakout Ribassista" ->
           <<"B", "r", "e", "a", "k", "o", "u", "t", " ", "R", "i", "b",
             "a", "s", "s", "i", "s", "t", "a">>
      [] s = "Consolidamento" ->
           <<"C", "o", "n", "s", "o", "l", "i", "d", "a", "m", "e", "n",
             "t", "o">>

\* str.startswith
StartsWith(s, prefix) ==
    /\ Len(Chars(prefix)) <= Len(Chars(s))
    /\ SubSeq(Chars(s), 1, Len(Chars(prefix))) = Chars(prefix)

\* message_text: form "warning" is "Impossibile calcolare il segnale ... {signal}.",
\* form "signal" is "... Segnale: **{signal}**", with the averages when values
NoMessage == [form |-> "none", signal |-> "", values |-> FALSE]
Fallback  == [form |-> "...", signal |-> "", values |-> FALSE]

PriceMessage(current_price) ==
    IF current_price.k # "None"
        THEN [form |-> "price", signal |-> "", values |-> TRUE]
    ELSE [form |-> "no_price", signal |-> "", values |-> FALSE]

MAMessage(sig, s_ma, l_ma) ==
    IF StartsWith(sig, "Dati MA non")
        THEN [form |-> "warning", signal |-> sig, values |-> FALSE]
    ELSE [form |-> "signal", signal |-> sig,
          values |-> s_ma.k # "None" /\ l_ma.k # "None"]

\* the breakout branch testing the prefix alone
BreakoutMessage_prefixOnly(sig) ==
    IF StartsWith(sig, "Errore")
        THEN [form |-> "warning", signal |-> sig, values |-> FALSE]
    ELSE [form |-> "signal", signal |-> sig, values |-> FALSE]

BreakoutMessage(sig) ==
    IF StartsWith(sig, "Errore") \/ sig = "Dati storici insufficienti per breakout"
        THEN [form |-> "warning", signal |-> sig, values |-> FALSE]
    ELSE [form |-> "signal", signal |-> sig, values |-> FALSE]

\* generate_breakout_signal as one call: the candle fetch, then the price fetch
generate_breakout_signal(lookback_period, kresp, tresp) ==
    IF InvalidLookback(lookback_period) THEN ErrLookback
    ELSE LET sig == BreakoutAfterKlines(lookback_period, kresp)
             sc  == Scan(kresp.rows)
             current_price == get_binance_price_pb(tresp)
         IN  IF sig # "" THEN sig
             ELSE ExceptReturnErrInternal(
                      IF current_price.k = "raise" THEN Propagated
                      ELSE BreakoutAfterPrice(current_price, sc.highest_high,
                                              sc.lowest_low))

\* ------------------------------------------------- telegram_interface.py bot
Clicks == 1..MaxClicks

\* callback data matching "^get_": the three buttons, and any other such data
PriceData    == "get_price_ETHUSDT"
MAData       == "get_ma_signal_ETHUSDT"
BreakoutData == "get_breakout_signal_ETHUSDT"
CallbackData == {PriceData, MAData, BreakoutData, "get_other"}

\* what run_in_executor hands back to the handler
NoResult == [price |-> None, short |-> None, long |-> None, signal |-> ""]

NewClick == [pc |-> "new", data |-> "", answered |-> FALSE, fetch_in |-> "none",
             result |-> NoResult, text |-> NoMessage, sends |-> <<>>]

\* the reply of last resort
GenericError == [form |-> "Si e' verificato un errore interno nel bot.",
                 signal |-> "", values |-> FALSE]

\* the values the function run for a button can return to the handler
WorkerResults(data) ==
    IF data = PriceData
        THEN {[NoResult EXCEPT !.price = get_binance_price_pb(t)] :
                t \in TickerResponses}
    ELSE IF data = MAData
        THEN {LET r == get_moving_averages(BotShortPeriod, BotLongPeriod, k)
              IN  [NoResult EXCEPT !.short = r.short, !.long = r.long] :
                k \in KlinesResponses(BotLongPeriod, CloseRows)}
    ELSE {[NoResult EXCEPT !.signal = generate_breakout_signal(BotLookback, kt[1], kt[2])] :
            kt \in KlinesResponses(BotLookback, RangeRows) \X TickerResponses}

\* message_text once the awaited call has returned
MessageFor(data, result) ==
    IF data = PriceData THEN PriceMessage(result.price)
    ELSE IF data = MAData
        THEN MAMessage(generate_crossover_signal(result.short, result.long,
                                                 DefaultProximity),
                       result.short, result.long)
    ELSE BreakoutMessage(result.signal)

\* where the handler goes after each send attempt
AfterEdit_always(ok) == "reply"

AfterEdit(ok)    == IF ok THEN "done" ELSE "reply"
AfterReply(ok)   == IF ok THEN "done" ELSE "generic"
AfterGeneric(ok) == IF ok THEN "done" ELSE "raised"

\* the positions of a handler that has started and not finished
Running == {"answer", "fetching", "fetched", "edit", "reply", "generic"}

\* ------------------------------------------------------------ state machine
VARIABLES
    op,              \* the operation in progress, "idle" when none
    pc,              \* where the operation stands
    args,            \* the arguments it was called with
    klines,          \* the last response to get_klines
    ticker,          \* the last response to get_symbol_ticker
    requests,        \* the provider requests issued so far by the operation
    price,           \* get_binance_price_pb's return value / current_price
    short_ma,        \* get_moving_averages' first return value
    long_ma,         \* get_moving_averages' second return value
    current_volume,  \* get_current_volume's return value
    avg_volume,      \* get_average_historical_volume's return value
    highest_high,    \* generate_breakout_signal's locals
    lowest_low,
    skipped,         \* rows the scan skipped (it prints one line for each)
    signal,          \* the string a classifier returned, "" before that
    message,         \* the message_text handle_button_click builds from it
    day,             \* the period the provider currently holds open
    current_period,  \* the period(s) get_current_volume read its volume from
    averaged,        \* the periods get_average_historical_volume averaged over
    clicks,          \* the button clicks of the bot, by click
    queue            \* the updates waiting in the application's update queue

botvars == <<clicks, queue>>

vars == <<op, pc, args, klines, ticker, requests, price, short_ma, long_ma,
          current_volume, avg_volume, highest_high, lowest_low, skipped, signal,
          message, day, current_period, averaged, clicks, queue>>

NoArgs == [short_period |-> 0, long_period |-> 0, lookback_period |-> 0,
           proximity |-> DefaultProximity,
           high_factor |-> DefaultHighFactor, low_factor |-> DefaultLowFactor]

\* the inputs the operations are called with
Periods         == (0 - 1)..MaxPeriod
Proximities     == {Rat(0 - 1, 1), Rat(0, 1), DefaultProximity, Rat(50, 1)}
CrossoverInputs == {None} \cup {Rat(n, 1) : n \in (0 - 2)..(MaxVal + 1)}
                   \cup {Rat(201, 2), Rat(100, 1), Rat(105, 1)}
FactorPairs     == {<<DefaultHighFactor, DefaultLowFactor>>, <<Rat(1, 2), Rat(2, 1)>>}
CurrentVolumes  == {None, Rat(0, 1), Rat(50, 1), Rat(69, 1), Rat(699, 10),
                    Rat(70, 1), Rat(150, 1), Rat(151, 1)}
AverageVolumes  == {None, Rat(0 - 1, 1), Rat(0, 1), Rat(100, 1)}

Init ==
    /\ op = "idle" /\ pc = "idle" /\ args = NoArgs
    /\ klines = NoKlines /\ ticker = NoTicker /\ requests = <<>>
    /\ price = None /\ short_ma = None /\ long_ma = None
    /\ current_volume = None /\ avg_volume = None
    /\ highest_high = 0 /\ lowest_low = Inf /\ skipped = 0
    /\ signal = "" /\ message = NoMessage
    /\ day = 0 /\ current_period = {} /\ averaged = {}
    /\ clicks = [c \in Clicks |-> NewClick] /\ queue = <<>>

\* an operation is entered with fresh locals; sm, lm, cv, av are the values a
\* classifier called on its own is given
EnterWith(o, p, a, sm, lm, cv, av) ==
    /\ pc = "idle"
    /\ op' = o /\ pc' = p /\ args' = a
    /\ klines' = NoKlines /\ ticker' = NoTicker /\ requests' = <<>>
    /\ price' = None /\ short_ma' = sm /\ long_ma' = lm
    /\ current_volume' = cv /\ avg_volume' = av
    /\ highest_high' = 0 /\ lowest_low' = Inf /\ skipped' = 0
    /\ signal' = "" /\ message' = NoMessage
    /\ day' = 0 /\ current_period' = {} /\ averaged' = {}
    /\ UNCHANGED botvars

Enter(o, a) == EnterWith(o, "called", a, None, None, None, None)

\* ---- get_binance_price_pb(symbol)
CallPrice == Enter("price", NoArgs)

PriceFetch ==
    /\ op = "price" /\ pc = "called"
    /\ \E resp \in TickerResponses :
        /\ ticker' = resp
        /\ requests' = requests \o TickerRequests(resp)
        /\ price' = get_binance_price_pb(resp)
    /\ pc' = "done"
    /\ UNCHANGED <<botvars, message, day, current_period, averaged, op, args, klines, short_ma, long_ma, current_volume,
                   avg_volume, highest_high, lowest_low, skipped, signal>>

\* ---- get_moving_averages(symbol, short, long), then
\* ---- generate_crossover_signal(short_ma, long_ma, threshold)
CallMovingAverages ==
    \E s \in Periods, l \in Periods :
        Enter("ma", [NoArgs EXCEPT !.short_period = s, !.long_period = l])

MovingAveragesReject ==
    /\ op = "ma" /\ pc = "called"
    /\ InvalidPeriods(args.short_period, args.long_period)
    /\ LET r == get_moving_averages(args.short_period, args.long_period, klines)
       IN  short_ma' = r.short /\ long_ma' = r.long
    /\ pc' = "classify"
    /\ UNCHANGED <<botvars, message, day, current_period, averaged, op, args, klines, ticker, requests, price, current_volume,
                   avg_volume, highest_high, lowest_low, skipped, signal>>

MovingAveragesFetch ==
    /\ op = "ma" /\ pc = "called"
    /\ ~InvalidPeriods(args.short_period, args.long_period)
    /\ \E resp \in KlinesResponses(args.long_period, CloseRows) :
        LET r == get_moving_averages(args.short_period, args.long_period, resp)
        IN  /\ klines' = resp
            /\ requests' = requests \o KlinesRequests(resp)
            /\ short_ma' = r.short /\ long_ma' = r.long
    /\ pc' = "classify"
    /\ UNCHANGED <<botvars, message, day, current_period, averaged, op, args, ticker, price, current_volume, avg_volume,
                   highest_high, lowest_low, skipped, signal>>

\* generate_crossover_signal on given averages, without a fetch
CallCrossover ==
    \E s \in CrossoverInputs, l \in CrossoverInputs, t \in Proximities :
        EnterWith("crossover", "classify", [NoArgs EXCEPT !.proximity = t],
                  s, l, None, None)

CrossoverClassify ==
    /\ op \in {"ma", "crossover"} /\ pc = "classify"
    /\ signal' = IF short_ma.k = "raise" \/ long_ma.k = "raise" THEN Propagated
                 ELSE generate_crossover_signal(short_ma, long_ma, args.proximity)
    /\ pc' = "done"
    /\ UNCHANGED <<botvars, message, day, current_period, averaged, op, args, klines, ticker, requests, price, short_ma, long_ma,
                   current_volume, avg_volume, highest_high, lowest_low, skipped>>

\* ---- generate_breakout_signal(symbol, lookback)
CallBreakout ==
    \E n \in Periods : Enter("breakout", [NoArgs EXCEPT !.lookback_period = n])

BreakoutReject ==
    /\ op = "breakout" /\ pc = "called"
    /\ InvalidLookback(args.lookback_period)
    /\ signal' = ErrLookback
    /\ pc' = "done"
    /\ UNCHANGED <<botvars, message, day, current_period, averaged, op, args, klines, ticker, requests, price, short_ma, long_ma,
                   current_volume, avg_volume, highest_high, lowest_low, skipped>>

\* the candle fetch, the count check and the scan for the extremes
BreakoutFetchKlines ==
    /\ op = "breakout" /\ pc = "called"
    /\ ~InvalidLookback(args.lookback_period)
    /\ \E resp \in KlinesResponses(args.lookback_period, RangeRows) :
        LET sig == BreakoutAfterKlines(args.lookback_period, resp)
            sc  == Scan(resp.rows)
        IN  /\ klines' = resp
            /\ requests' = requests \o KlinesRequests(resp)
            /\ IF sig = ""
               THEN /\ highest_high' = sc.highest_high
                    /\ lowest_low' = sc.lowest_low
                    /\ skipped' = sc.skipped
                    /\ pc' = "price"
                    /\ signal' = signal
               ELSE /\ UNCHANGED <<highest_high, lowest_low, skipped>>
                    /\ pc' = "done"
                    /\ signal' = sig
    /\ UNCHANGED <<botvars, message, day, current_period, averaged, op, args, ticker, price, short_ma, long_ma, current_volume,
                   avg_volume>>

\* current_price = get_binance_price_pb(symbol) and the classification
BreakoutFetchPrice ==
    /\ op = "breakout" /\ pc = "price"
    /\ \E resp \in TickerResponses :
        LET current_price == get_binance_price_pb(resp)
        IN  /\ ticker' = resp
            /\ requests' = requests \o TickerRequests(resp)
            /\ price' = current_price
            /\ signal' = ExceptReturnErrInternal(
                             IF current_price.k = "raise" THEN Propagated
                             ELSE BreakoutAfterPrice(current_price, highest_high,
                                                     lowest_low))
    /\ pc' = "done"
    /\ UNCHANGED <<botvars, message, day, current_period, averaged, op, args, klines, short_ma, long_ma, current_volume,
                   avg_volume, highest_high, lowest_low, skipped>>

\* ---- the volume analysis of bin_lib_adv's __main__: get_current_volume, then
\* ---- get_average_historical_volume, then generate_volume_signal
CallVolume ==
    \E n \in Periods : Enter("volume", [NoArgs EXCEPT !.lookback_period = n])

VolumeFetchCurrent ==
    /\ op = "volume" /\ pc = "called"
    /\ \E resp \in KlinesResponses(1, VolumeRows) :
        /\ klines' = resp
        /\ requests' = requests \o KlinesRequests(resp)
        /\ current_volume' = get_current_volume(resp)
        /\ current_period' = CurrentPeriod(resp, day)
    /\ pc' = "average"
    /\ UNCHANGED <<botvars, message, day, averaged, op, args, ticker, price, short_ma, long_ma, avg_volume,
                   highest_high, lowest_low, skipped, signal>>

VolumeAverageReject ==
    /\ op = "volume" /\ pc = "average"
    /\ InvalidLookback(args.lookback_period)
    /\ avg_volume' = get_average_historical_volume(args.lookback_period, klines)
    /\ pc' = "classify"
    /\ UNCHANGED <<botvars, message, day, current_period, averaged, op, args, klines, ticker, requests, price, short_ma, long_ma,
                   current_volume, highest_high, lowest_low, skipped, signal>>

VolumeAverageFetch ==
    /\ op = "volume" /\ pc = "average"
    /\ ~InvalidLookback(args.lookback_period)
    /\ \E resp \in KlinesResponses(args.lookback_period + 1, VolumeRows) :
        /\ klines' = resp
        /\ requests' = requests \o KlinesRequests(resp)
        /\ avg_volume' = get_average_historical_volume(args.lookback_period, resp)
        /\ averaged' = AveragedPeriods(args.lookback_period, resp, day)
    /\ pc' = "classify"
    /\ UNCHANGED <<botvars, message, day, current_period, op, args, ticker, price, short_ma, long_ma, current_volume,
                   highest_high, lowest_low, skipped, signal>>

\* the provider closes the current day and opens the next one, at any point
\* of the analysis
DayCloses ==
    /\ op = "volume" /\ pc \in {"called", "average", "classify"}
    /\ day < MaxRollovers
    /\ day' = day + 1
    /\ UNCHANGED <<botvars, message, current_period, averaged, op, pc, args, klines,
                   ticker, requests, price, short_ma, long_ma, current_volume,
                   avg_volume, highest_high, lowest_low, skipped, signal>>

\* generate_volume_signal on given volumes, without a fetch
CallVolumeSignal ==
    \E c \in CurrentVolumes, a \in AverageVolumes, f \in FactorPairs :
        EnterWith("volsignal", "classify",
                  [NoArgs EXCEPT !.high_factor = f[1], !.low_factor = f[2]],
                  None, None, c, a)

VolumeClassify ==
    /\ op \in {"volume", "volsignal"} /\ pc = "classify"
    /\ signal' = IF current_volume.k = "raise" \/ avg_volume.k = "raise"
                 THEN Propagated
                 ELSE generate_volume_signal(current_volume, avg_volume,
                                             args.high_factor, args.low_factor)
    /\ pc' = "done"
    /\ UNCHANGED <<botvars, message, day, current_period, averaged, op, args, klines, ticker, requests, price, short_ma, long_ma,
                   current_volume, avg_volume, highest_high, lowest_low, skipped>>

\* ---- handle_button_click building message_text from what the call returned
BuildMessage ==
    /\ pc = "done" /\ op \in {"price", "ma", "breakout"}
    /\ message = NoMessage
    /\ signal # Propagated /\ price.k # "raise"
    /\ message' = IF op = "price" THEN PriceMessage(price)
                  ELSE IF op = "ma" THEN MAMessage(signal, short_ma, long_ma)
                  ELSE BreakoutMessage(signal)
    /\ UNCHANGED <<botvars, day, current_period, averaged, op, pc, args, klines,
                   ticker, requests, price, short_ma, long_ma, current_volume,
                   avg_volume, highest_high, lowest_low, skipped, signal>>

\* ---- the operation returns to its caller
Return ==
    /\ pc = "done"
    /\ op' = "idle" /\ pc' = "idle" /\ args' = NoArgs
    /\ klines' = NoKlines /\ ticker' = NoTicker /\ requests' = <<>>
    /\ price' = None /\ short_ma' = None /\ long_ma' = None
    /\ current_volume' = None /\ avg_volume' = None
    /\ highest_high' = 0 /\ lowest_low' = Inf /\ skipped' = 0
    /\ signal' = "" /\ message' = NoMessage
    /\ day' = 0 /\ current_period' = {} /\ averaged' = {}
    /\ UNCHANGED botvars

Next ==
    \/ CallPrice \/ PriceFetch
    \/ CallMovingAverages \/ MovingAveragesReject \/ MovingAveragesFetch
    \/ CallCrossover \/ CrossoverClassify
    \/ CallBreakout \/ BreakoutReject \/ BreakoutFetchKlines \/ BreakoutFetchPrice
    \/ CallVolume \/ VolumeFetchCurrent \/ VolumeAverageReject \/ VolumeAverageFetch
    \/ DayCloses
    \/ CallVolumeSignal \/ VolumeClassify
    \/ BuildMessage
    \/ Return

Spec == Init /\ [][Next]_vars

\* -------------------------------------------------------- the bot's handler
libvars == <<op, pc, args, klines, ticker, requests, price, short_ma, long_ma,
             current_volume, avg_volume, highest_high, lowest_low, skipped,
             signal, message, day, current_period, averaged>>

Send(c, method, text, ok) ==
    Append(clicks[c].sends, [method |-> method, text |-> text, ok |-> ok])

\* a user presses a button; run_polling puts the update in the update queue
Press(c) ==
    /\ clicks[c].pc = "new"
    /\ \A b \in Clicks : b < c => clicks[b].pc # "new"
    /\ \E d \in CallbackData :
        clicks' = [clicks EXCEPT ![c].pc = "queued", ![c].data = d]
    /\ queue' = Append(queue, c)
    /\ UNCHANGED libvars

\* the application takes the next update and calls handle_button_click; it
\* was built without concurrent updates and the handler is a blocking one, so
\* it awaits the handler of one update before it takes the next
Dispatch(c) ==
    /\ queue # <<>> /\ Head(queue) = c
    /\ \A b \in Clicks : clicks[b].pc \notin Running
    /\ clicks' = [clicks EXCEPT ![c].pc = "answer"]
    /\ queue' = Tail(queue)
    /\ UNCHANGED libvars

\* await query.answer(), message_text = "...", and the branch on callback_data
\* up to its run_in_executor
Answer(c) ==
    /\ clicks[c].pc = "answer"
    /\ \E ok \in BOOLEAN :
        clicks' =
            IF ~ok THEN [clicks EXCEPT ![c].pc = "raised"]
            ELSE IF clicks[c].data \in {PriceData, MAData, BreakoutData}
                THEN [clicks EXCEPT ![c].pc = "fetching", ![c].answered = TRUE,
                                    ![c].fetch_in = "executor"]
            ELSE [clicks EXCEPT ![c].pc = "edit", ![c].answered = TRUE,
                                ![c].text = Fallback]
    /\ UNCHANGED <<libvars, queue>>

\* the executor's thread finishes the blocking call
WorkerReturns(c) ==
    /\ clicks[c].pc = "fetching"
    /\ \E r \in WorkerResults(clicks[c].data) :
        clicks' = [clicks EXCEPT ![c].pc = "fetched", ![c].result = r]
    /\ UNCHANGED <<libvars, queue>>

\* the handler resumes on the event loop and builds message_text
Resume(c) ==
    /\ clicks[c].pc = "fetched"
    /\ clicks' = [clicks EXCEPT ![c].pc = "edit",
                                ![c].text = MessageFor(clicks[c].data, clicks[c].result)]
    /\ UNCHANGED <<libvars, queue>>

\* await query.edit_message_text(text=message_text, ...)
EditMessage(c) ==
    /\ clicks[c].pc = "edit"
    /\ \E ok \in BOOLEAN :
        clicks' = [clicks EXCEPT
                      ![c].sends = Send(c, "edit_message_text", clicks[c].text, ok),
                      ![c].pc = AfterEdit(ok)]
    /\ UNCHANGED <<libvars, queue>>

\* except: await query.message.reply_text(text=message_text)
ReplyText(c) ==
    /\ clicks[c].pc = "reply"
    /\ \E ok \in BOOLEAN :
        clicks' = [clicks EXCEPT
                      ![c].sends = Send(c, "reply_text", clicks[c].text, ok),
                      ![c].pc = AfterReply(ok)]
    /\ UNCHANGED <<libvars, queue>>

\* except: await query.message.reply_text("Si e' verificato un errore ...")
ReplyGeneric(c) ==
    /\ clicks[c].pc = "generic"
    /\ \E ok \in BOOLEAN :
        clicks' = [clicks EXCEPT
                      ![c].sends = Send(c, "reply_text", GenericError, ok),
                      ![c].pc = AfterGeneric(ok)]
    /\ UNCHANGED <<libvars, queue>>

BotNext ==
    \E c \in Clicks :
        \/ Press(c)
        \/ Dispatch(c)
        \/ Answer(c)
        \/ WorkerReturns(c)
        \/ Resume(c)
        \/ EditMessage(c)
        \/ ReplyText(c)
        \/ ReplyGeneric(c)

BotSpec == Init /\ [][BotNext]_vars

\* ------------------------------------------------------------- properties
MovingAveragesReturned == op = "ma" /\ pc \in {"classify", "done"}
AverageVolumeReturned  == op = "volume" /\ pc \in {"classify", "done"}
BreakoutReturned       == op = "breakout" /\ pc = "done"

CrossoverSignals == {"Dati MA non disponibili", "Dati MA non validi (MA lunga = 0)",
                     "Hold", "Rialzista", "Ribassista"}
VolumeSignals    == {"Dati Volume non disponibili", "STABILE", "RIALZISTA",
                     "RIBASSISTA"}
BreakoutLabels   == {"Breakout Rialzista", "Breakout Ribassista", "Consolidamento"}

\* C1: given lookback_period > 0 and exactly lookback_period + 1 well-formed
\* candles, get_average_historical_volume returns the arithmetic mean of the
\* volumes of the first lookback_period candles, and not None.
C1_AverageIsMeanOfClosed ==
    (/\ AverageVolumeReturned
     /\ args.lookback_period > 0
     /\ klines.status = "ok"
     /\ Len(klines.rows) = args.lookback_period + 1
     /\ AllParse(klines.rows, "volume"))
    => /\ avg_volume.k = "num"
       /\ avg_volume.num * args.lookback_period =
            avg_volume.den *
            SumSeq([i \in 1..args.lookback_period |-> klines.rows[i].volume.v])

\* C2: generate_crossover_signal is total and decides in this order: an average
\* missing -> "Dati MA non disponibili"; long = 0 -> "Dati MA non validi (MA
\* lunga = 0)"; with relDiff = |short - long| / long * 100, relDiff <= t ->
\* "Hold", else short > long -> "Rialzista", else "Ribassista".  Equal non-zero
\* averages give "Hold" for every t >= 0.
C2_CrossoverDecision ==
    (op \in {"ma", "crossover"} /\ pc = "done") =>
        LET s == short_ma
            l == long_ma
            t == args.proximity
            \* |s - l| as a multiple of 1 / (s.den * l.den)
            d == IF s.num * l.den >= l.num * s.den
                 THEN s.num * l.den - l.num * s.den
                 ELSE l.num * s.den - s.num * l.den
            \* relDiff = 100 * d / (s.den * l.num) compared with t.num / t.den
            relDiffLeqT ==
                IF l.num > 0
                THEN 100 * d * t.den <= t.num * s.den * l.num
                ELSE 0 - (100 * d * t.den) <= t.num * s.den * (0 - l.num)
        IN  /\ signal \in CrossoverSignals
            /\ signal = IF s.k = "None" \/ l.k = "None"
                            THEN "Dati MA non disponibili"
                        ELSE IF l.num = 0 THEN "Dati MA non validi (MA lunga = 0)"
                        ELSE IF relDiffLeqT THEN "Hold"
                        ELSE IF s.num * l.den > l.num * s.den THEN "Rialzista"
                        ELSE "Ribassista"
            /\ (/\ IsNum(s) /\ IsNum(l) /\ REq(s, l) /\ s.num # 0 /\ t.num >= 0)
               => signal = "Hold"

C2_Witness ==
    /\ op = "crossover" /\ pc = "done"
    /\ IsNum(short_ma) /\ short_ma = long_ma /\ short_ma.num # 0
    /\ args.proximity.num = 0
    /\ signal = "Hold"

\* C3: once the extremes are computed and the price is available, the result is
\* "Breakout Rialzista" exactly when price > highestHigh, "Breakout Ribassista"
\* exactly when price <= highestHigh and price < lowestLow, "Consolidamento"
\* otherwise; a price equal to highestHigh or equal to lowestLow yields
\* "Consolidamento"; an unavailable price yields the price-unavailable error.
C3_BreakoutDecision ==
    (BreakoutReturned /\ ticker.status # "none") =>
        IF price.k = "None" THEN signal = ErrPrice
        ELSE LET above == price.num > highest_high * price.den
                 below == price.num < lowest_low * price.den
             IN  /\ signal \in BreakoutLabels
                 /\ (signal = "Breakout Rialzista") <=> above
                 /\ (signal = "Breakout Ribassista") <=> (~above /\ below)
                 /\ (signal = "Consolidamento") <=> (~above /\ ~below)
                 /\ (\/ price.num = highest_high * price.den
                     \/ price.num = lowest_low * price.den)
                    => signal = "Consolidamento"

C6_OpenCandleExcluded ==
    (/\ MovingAveragesReturned
     /\ klines.status = "ok"
     /\ IsNum(short_ma) /\ IsNum(long_ma)) =>
        \A c \in 0..MaxVal :
            LET other == [klines EXCEPT
                             !.rows[Len(klines.rows)].close = NumField(c)]
                r     == get_moving_averages(args.short_period,
                                             args.long_period, other)
            IN  OptEq(r.short, short_ma) /\ OptEq(r.long, long_ma)

\* C7: insufficient history is never averaged over a shorter window: fewer than
\* long_period candles -> get_moving_averages returns (None, None); fewer than
\* lookback_period + 1 -> get_average_historical_volume returns None; fewer than
\* lookback_period -> generate_breakout_signal returns "Dati storici
\* insufficienti per breakout".
C7_InsufficientHistory ==
    /\ (/\ MovingAveragesReturned
        /\ 0 < args.short_period /\ args.short_period <= args.long_period
        /\ klines.status = "ok"
        /\ Len(klines.rows) < args.long_period)
       => (short_ma = None /\ long_ma = None)
    /\ (/\ AverageVolumeReturned
        /\ args.lookback_period > 0
        /\ klines.status = "ok"
        /\ Len(klines.rows) < args.lookback_period + 1)
       => avg_volume = None
    /\ (/\ BreakoutReturned
        /\ args.lookback_period > 0
        /\ klines.status = "ok"
        /\ Len(klines.rows) < args.lookback_period)
       => (signal = ErrInsufficient /\ ticker.status = "none")

C7_Witness ==
    /\ MovingAveragesReturned
    /\ args.short_period = 1 /\ args.long_period = 3
    /\ klines.status = "ok" /\ Len(klines.rows) = 2
    /\ AllParse(klines.rows, "close")
    /\ short_ma = None /\ long_ma = None

\* C8: invalid parameters are rejected before any data access: (None, None),
\* None and "Errore: Il lookback period deve essere positivo." are returned and
\* the call issues no request to the provider.
C8_InvalidParametersRejected ==
    /\ (/\ op = "ma"
        /\ (\/ args.short_period <= 0 \/ args.long_period <= 0
            \/ args.short_period > args.long_period))
       => /\ requests = <<>> /\ klines = NoKlines
          /\ MovingAveragesReturned => (short_ma = None /\ long_ma = None)
    /\ (op = "volume" /\ args.lookback_period <= 0 /\ AverageVolumeReturned)
       \* only the requests of the preceding get_current_volume were issued
       => /\ requests = KlinesRequests(klines)
          /\ avg_volume = None
    /\ (op = "breakout" /\ args.lookback_period <= 0)
       => /\ requests = <<>> /\ klines = NoKlines /\ ticker = NoTicker
          /\ BreakoutReturned => signal = ErrLookback

C8_Witness ==
    /\ MovingAveragesReturned
    /\ args.short_period = 2 /\ args.long_period = 1
    /\ requests = <<>>
    /\ short_ma = None /\ long_ma = None

\* C9: a provider failure never propagates: the price, the volumes and the
\* averages come back as None, the breakout as an error string, and the
\* classifier that consumes them yields an unavailable / error signal.
C9_ProviderFailureContained ==
    /\ price.k # "raise" /\ short_ma.k # "raise" /\ long_ma.k # "raise"
    /\ current_volume.k # "raise" /\ avg_volume.k # "raise"
    /\ signal # Propagated
    /\ (op = "price" /\ pc = "done" /\ ticker.status # "ok") => price = None
    /\ (op = "volume" /\ pc = "average" /\ klines.status # "ok")
       => current_volume = None
    /\ (AverageVolumeReturned /\ args.lookback_period > 0 /\ klines.status # "ok")
       => avg_volume = None
    /\ (op = "volume" /\ pc = "done" /\ (current_volume = None \/ avg_volume = None))
       => signal = "Dati Volume non disponibili"
    /\ (MovingAveragesReturned /\ klines.status \in {"client_error", "api_error"})
       => /\ short_ma = None /\ long_ma = None
          /\ pc = "done" => signal = "Dati MA non disponibili"
    /\ (BreakoutReturned /\ klines.status \in {"client_error", "api_error"})
       => signal = ErrInternal
    /\ (BreakoutReturned /\ ticker.status \in {"client_error", "api_error"})
       => signal = ErrPrice

C9_Witness ==
    /\ op = "ma" /\ pc = "done"
    /\ klines.status = "api_error"
    /\ requests = <<"client", "klines">>
    /\ short_ma = None /\ long_ma = None
    /\ signal = "Dati MA non disponibili"

\* C10: a candle whose close (get_moving_averages) or volume
\* (get_average_historical_volume) cannot be parsed makes the whole result
\* unavailable, whereas generate_breakout_signal with a single row of the same
\* kind still proceeds to classify using the remaining rows.
C10_MalformedRecordPolicy ==
    /\ (/\ MovingAveragesReturned
        /\ klines.status = "ok"
        /\ ~AllParse(klines.rows, "close"))
       => (short_ma = None /\ long_ma = None)
    /\ (/\ AverageVolumeReturned
        /\ args.lookback_period > 0
        /\ klines.status = "ok"
        /\ ~AllParse(klines.rows, "volume"))
       => avg_volume = None
    /\ (/\ op = "breakout" /\ pc \in {"price", "done"}
        /\ klines.status = "ok"
        /\ Len(klines.rows) >= args.lookback_period
        /\ Cardinality({i \in 1..Len(klines.rows) :
                            RowError(klines.rows[i]) # ""}) = 1)
       => LET good == {i \in 1..Len(klines.rows) : RowError(klines.rows[i]) = ""}
          IN  /\ signal # ErrInternal
              /\ (pc = "done" /\ IsNum(price) /\ good # {}) =>
                    signal =
                        IF \A i \in good :
                               price.num > klines.rows[i].high.v * price.den
                            THEN "Breakout Rialzista"
                        ELSE IF \A i \in good :
                               price.num < klines.rows[i].low.v * price.den
                            THEN "Breakout Ribassista"
                        ELSE "Consolidamento"

\* C11: in the breakout scan a row whose high or low fails to parse is skipped
\* as a whole, highestHigh and lowestLow are the maximum high and the minimum
\* low over exactly the remaining well-formed rows, and the number of skipped
\* rows is available to the caller.
C11_MalformedRowsSkipped ==
    (/\ op = "breakout" /\ pc \in {"price", "done"}
     /\ klines.status = "ok"
     /\ args.lookback_period > 0
     /\ Len(klines.rows) >= args.lookback_period) =>
        LET rows == klines.rows
            bad  == {i \in 1..Len(rows) :
                        rows[i].high.k # "num" \/ rows[i].low.k # "num"}
            good == (1..Len(rows)) \ bad
        IN  /\ signal # ErrInternal
            /\ skipped = Cardinality(bad)
            /\ good # {} =>
                /\ \E i \in good : highest_high = rows[i].high.v
                /\ \A i \in good : highest_high >= rows[i].high.v
                /\ \E i \in good : lowest_low = rows[i].low.v
                /\ \A i \in good : lowest_low <= rows[i].low.v

\* C14: no retries: one invocation of get_moving_averages,
\* get_average_historical_volume, get_current_volume or get_binance_price_pb
\* calls the provider at most once; generate_breakout_signal issues the candle
\* fetch and the price fetch at most once each; after a failed fetch no further
\* provider call is made and the result is the unavailable value or error signal.
C14_NoRetries ==
    LET count(kind) == Cardinality({i \in 1..Len(requests) : requests[i] = kind})
        failed(resp) == resp.status \in {"client_error", "api_error"}
    IN  /\ op = "price" =>
            /\ count("klines") = 0 /\ count("ticker") <= 1
            /\ (pc = "done" /\ failed(ticker)) => price = None
        /\ op = "ma" =>
            /\ count("klines") <= 1 /\ count("ticker") = 0
            /\ (pc \in {"classify", "done"} /\ failed(klines))
               => (short_ma = None /\ long_ma = None)
        /\ op = "breakout" =>
            /\ count("klines") <= 1 /\ count("ticker") <= 1
            /\ failed(klines) =>
                /\ count("ticker") = 0 /\ ticker = NoTicker
                /\ pc = "done" /\ signal = ErrInternal
            /\ failed(ticker) => (pc = "done" /\ signal = ErrPrice)
        /\ (op = "volume" /\ pc = "average") =>
            \* get_current_volume has returned
            /\ count("klines") <= 1
            /\ failed(klines) => current_volume = None
        /\ (op = "volume" /\ pc \in {"classify", "done"}) =>
            \* get_average_historical_volume has returned as well
            /\ count("klines") <= 2
            /\ (args.lookback_period > 0 /\ failed(klines)) => avg_volume = None

C14_Witness ==
    /\ op = "breakout" /\ pc = "done"
    /\ klines.status = "api_error"
    /\ requests = <<"client", "klines">>
    /\ ticker = NoTicker
    /\ signal = ErrInternal

\* C17: generate_breakout_signal returns "Breakout Rialzista", "Breakout
\* Ribassista" or "Consolidamento" only if at least one row of the window was
\* parsed and contributed to the extremes; a full-length window of malformed
\* rows gives an unavailable / error signal.
C17_LabelNeedsParsedRow ==
    (BreakoutReturned /\ signal \in BreakoutLabels) =>
        \E i \in 1..Len(klines.rows) :
            klines.rows[i].high.k = "num" /\ klines.rows[i].low.k = "num"

\* C12: for every value the classifiers can return, handle_button_click renders
\* the unavailable-data strings ("Dati MA non disponibili", "Dati MA non validi
\* (MA lunga = 0)", "Dati storici insufficienti per breakout" and every
\* breakout string beginning with "Errore") only in the warning form, never in
\* the "Segnale: **...**" form, and renders the labels only in that form.
C12_ErrorsRenderedAsWarnings ==
    (op \in {"ma", "breakout"} /\ message # NoMessage) =>
        /\ message.signal = signal
        /\ signal \in {"Dati MA non disponibili",
                       "Dati MA non validi (MA lunga = 0)",
                       ErrInsufficient, ErrLookback, ErrPrice, ErrInternal}
             => message.form = "warning"
        /\ signal \in {"Hold", "Rialzista", "Ribassista"} \cup BreakoutLabels
             => message.form = "signal"
        /\ message.form \in {"warning", "signal"}

C12_Witness ==
    /\ op = "breakout" /\ pc = "done"
    /\ signal = ErrInsufficient
    /\ message.form = "warning" /\ message.signal = ErrInsufficient

\* C16: the window generate_breakout_signal scans includes the open candle, its
\* last row: whenever the window was fetched in full, its last row is well
\* formed and the price then fetched lies within [low, high] of that row, the
\* result is "Consolidamento"; a breakout label is returned only for a price
\* beyond the last row's high or low.
C16_OpenCandleInWindow ==
    (/\ BreakoutReturned
     /\ klines.status = "ok"
     /\ args.lookback_period > 0
     /\ Len(klines.rows) = args.lookback_period
     /\ klines.rows[Len(klines.rows)].high.k = "num"
     /\ klines.rows[Len(klines.rows)].low.k = "num") =>
        LET last   == klines.rows[Len(klines.rows)]
            within == /\ price.k = "num"
                      /\ RLeq(Rat(last.low.v, 1), price)
                      /\ RLeq(price, Rat(last.high.v, 1))
        IN  /\ within => signal = "Consolidamento"
            /\ signal \in {"Breakout Rialzista", "Breakout Ribassista"} => ~within
            /\ signal \in BreakoutLabels =>
                 /\ highest_high >= last.high.v
                 /\ lowest_low <= last.low.v

C16_Witness ==
    /\ BreakoutReturned
    /\ args.lookback_period = 2 /\ Len(klines.rows) = 2
    /\ klines.rows[2].high.k = "num" /\ klines.rows[2].low.k = "num"
    /\ klines.rows[1].high.k = "num" /\ klines.rows[1].low.k = "num"
    /\ klines.rows[1].high.v < klines.rows[2].high.v
    /\ price = Rat(klines.rows[2].high.v, 1)
    /\ signal = "Consolidamento"

\* C15: in the volume analysis, the period whose volume get_current_volume
\* returned is never one of the periods get_average_historical_volume averaged
\* over, however the two fetches interleave with the provider closing the
\* current day.
C15_CurrentPeriodNotAveraged ==
    (op = "volume" /\ pc \in {"classify", "done"}) =>
        current_period \cap averaged = {}

\* C13: a slow fetch for one click does not stall other requests: every
\* blocking call made for a click runs in an executor worker, and while one
\* click's fetch is pending, a second click waiting in the update queue can be
\* taken up by its handler.
C13_SecondClickNotStalled ==
    /\ \A c \in Clicks :
        clicks[c].pc \in {"fetching", "fetched"} => clicks[c].fetch_in = "executor"
    /\ \A c \in Clicks, d \in Clicks :
        (/\ clicks[c].pc = "fetching"
         /\ clicks[d].pc = "queued"
         /\ queue # <<>> /\ Head(queue) = d) => ENABLED Dispatch(d)

\* C18: for every click, the callback query is acknowledged before any fetch
\* starts; once message_text is built edit_message_text is attempted exactly
\* once; reply_text with the same text is attempted only if the edit raised;
\* the generic reply only if that second attempt raised too; at most three
\* attempts are made and none follows an attempt that succeeded.
C18_DeliveryFallbackOrder ==
    \A c \in Clicks :
        LET k == clicks[c]
            n == Len(k.sends)
        IN  /\ k.fetch_in # "none" => k.answered
            /\ k.pc \in {"fetching", "fetched", "edit", "reply", "generic", "done"}
                 => k.answered
            /\ n <= 3
            /\ k.pc \in {"new", "queued", "answer", "fetching", "fetched", "edit"}
                 => n = 0
            /\ k.pc = "edit" => k.text # NoMessage
            /\ k.pc = "reply" => n = 1
            /\ k.pc = "generic" => n = 2
            /\ k.pc = "done" => (n >= 1 /\ k.sends[n].ok)
            /\ (k.pc = "raised" /\ k.answered) => n = 3
            /\ n >= 1 => /\ k.sends[1].method = "edit_message_text"
                         /\ k.sends[1].text = k.text
            /\ n >= 2 => /\ ~k.sends[1].ok
                         /\ k.sends[2].method = "reply_text"
                         /\ k.sends[2].text = k.text
            /\ n >= 3 => /\ ~k.sends[2].ok
                         /\ k.sends[3].method = "reply_text"
                         /\ k.sends[3].text = GenericError
            /\ \A i \in 1..n : k.sends[i].ok => i = n

C18_Witness ==
    \E c \in Clicks :
        /\ clicks[c].pc = "done"
        /\ clicks[c].data = BreakoutData
        /\ Len(clicks[c].sends) = 3
        /\ clicks[c].sends[3].ok
        /\ clicks[c].sends[3].text = GenericError

============================================================================
